---- MODULE Spec2Model ----
(***************************************************************************)
(* Model of the news pipeline of scripts/: RSSFetcher (fetch_rss.py),      *)
(* AIProcessor (ai_processor.py), ReportGenerator (report_generator.py)    *)
(* and main (main.py).                                                     *)
(*                                                                         *)
(* Python dicts are functions from key strings to values; a key that is    *)
(* absent from the dict is absent from the function's DOMAIN.  The         *)
(* Chinese string literals of the source are written in ASCII:             *)
(*   "major_news"      = '重大新闻'      "industry_news" = '行业动态'      *)
(*   "product_release" = '产品发布'      "tech_article"  = '技术干货'      *)
(*   "opinion"         = '观点评论'      "ai_unavailable" = 'AI不可用'     *)
(* A text (str) is the record [base, len]: the first len characters of the *)
(* text named base, so that slicing s[:n] is computed and not assumed.     *)
(***************************************************************************)
EXTENDS Integers, Sequences, FiniteSets, TLC

VARIABLES
    pc,             \* position of the run: the operation applied last / next
    articles,       \* the article list the operation works on
    arg,            \* the argument of the operation (threshold, reverse, reply)
    ret,            \* the value the operation returned
    env_key,        \* the environment variable DEEPSEEK_API_KEY
    api_key,        \* AIProcessor.api_key
    sources,        \* RSSFetcher.sources, the registry
    fetch_i,        \* fetch_all: index of the source fetched next
    fetch_log,      \* the feed requests issued so far, one entry per request
    proc_i,         \* process_all: start of the current batch (0-based)
    processed,      \* process_batch: the articles of the batch analysed so far
    all_processed,  \* process_all: the articles of the finished batches
    ai_log,         \* the classification requests issued so far
    files,          \* the files written, path |-> what the file holds
    exit_status,    \* "none" while running, then "zero" or "nonzero"
    config,         \* the source configuration file config/sources.json
    now,            \* the clock, in ticks
    raised,         \* the exception that reached main's handler, and where
    prev_files      \* the files as the previous run of the report step left them

listVars == <<articles, arg, ret>>
pipeVars == <<env_key, api_key, sources, fetch_i, fetch_log, proc_i, processed,
              all_processed, ai_log, files, exit_status, config, now, raised,
              prev_files>>
vars == <<pc, articles, arg, ret, env_key, api_key, sources, fetch_i, fetch_log,
          proc_i, processed, all_processed, ai_log, files, exit_status, config, now,
          raised, prev_files>>

(***************************************************************************)
(* Bounds of the model                                                     *)
(***************************************************************************)
MaxLen == 4         \* longest article list given to the list operations

(***************************************************************************)
(* Python helpers                                                          *)
(***************************************************************************)
NoDict == <<>>      \* the empty dict {}

Min(a, b) == IF a <= b THEN a ELSE b
Max(a, b) == IF a >= b THEN a ELSE b

\* d.get(k, dflt)
Get(d, k, dflt) == IF k \in DOMAIN d THEN d[k] ELSE dflt

\* d.update(e): the keys of e replace or extend those of d
Update(d, e) == e @@ d

\* s[:n] of a list
Take(s, n) == SubSeq(s, 1, Min(n, Len(s)))

\* s[:n] of a text
TakeText(s, n) == [s EXCEPT !.len = Min(n, s.len)]

Range(s) == {s[i] : i \in DOMAIN s}

PyNone == "None"    \* the value None where a string is expected

\* truth value of a string or None: `if not x`
Truthy(x) == x \notin {"", PyNone}

\* x or y
Or(x, y) == IF Truthy(x) THEN x ELSE y

\* no exception has reached main's handler
NotRaised == [stage |-> "none", exc |-> "none"]

\* the configuration file does not exist
NoConfig == [kind |-> "missing", doc |-> [t |-> "object", obj |-> <<>>]]

\* The state of the pipeline while a single operation is applied on its own.
PipeIdle ==
    /\ config = NoConfig
    /\ now = 0
    /\ raised = NotRaised
    /\ prev_files = NoDict
    /\ env_key = PyNone
    /\ api_key = PyNone
    /\ sources = <<>>
    /\ fetch_i = 0
    /\ fetch_log = <<>>
    /\ proc_i = 0
    /\ processed = <<>>
    /\ all_processed = <<>>
    /\ ai_log = <<>>
    /\ files = NoDict
    /\ exit_status = "none"

(***************************************************************************)
(* AIProcessor.filter_by_hot_score and sort_by_hot_score                   *)
(***************************************************************************)
\* the sort / filter key: x.get('hot_score', 0)
HotScoreOf(a) == Get(a, "hot_score", 0)

\* Mutant of filter_by_hot_score: the comparison written > instead of >=.
RECURSIVE filter_strictly_above(_, _)
filter_strictly_above(as, threshold) ==
    IF as = <<>> THEN <<>>
    ELSE IF HotScoreOf(Head(as)) > threshold
         THEN <<Head(as)>> \o filter_strictly_above(Tail(as), threshold)
         ELSE filter_strictly_above(Tail(as), threshold)

\* [a for a in articles if a.get('hot_score', 0) >= threshold]
RECURSIVE filter_by_hot_score(_, _)
filter_by_hot_score(as, threshold) ==
    IF as = <<>> THEN <<>>
    ELSE IF HotScoreOf(Head(as)) >= threshold
         THEN <<Head(as)>> \o filter_by_hot_score(Tail(as), threshold)
         ELSE filter_by_hot_score(Tail(as), threshold)

\* Position at which a stable sort places x in the already sorted list s:
\* after every element that does not have to follow x.
InsertPos(s, x, reverse) ==
    LET after == {i \in 1..Len(s) :
                     IF reverse THEN HotScoreOf(s[i]) < HotScoreOf(x)
                                ELSE HotScoreOf(s[i]) > HotScoreOf(x)}
    IN  IF after = {} THEN Len(s) + 1
        ELSE CHOOSE i \in after : \A j \in after : i <= j

InsertAt(s, p, x) == SubSeq(s, 1, p - 1) \o <<x>> \o SubSeq(s, p, Len(s))

\* sorted(articles, key=hot_score, reverse=reverse): Python's sort is stable,
\* also with reverse=True.
RECURSIVE SortedFrom(_, _, _)
SortedFrom(done, rest, reverse) ==
    IF rest = <<>> THEN done
    ELSE SortedFrom(InsertAt(done, InsertPos(done, Head(rest), reverse), Head(rest)),
                    Tail(rest), reverse)

Reverse(s) == [i \in 1..Len(s) |-> s[Len(s) + 1 - i]]

\* Mutant of sort_by_hot_score: descending order obtained by reversing the
\* ascending sort (sorted(...)[::-1]), which reverses the ties as well.
sort_then_reverse(as, reverse) ==
    IF reverse THEN Reverse(SortedFrom(<<>>, as, FALSE)) ELSE SortedFrom(<<>>, as, FALSE)

sort_by_hot_score(as, reverse) == SortedFrom(<<>>, as, reverse)

(***************************************************************************)
(* SpecScore: the list operations of AIProcessor applied to a scored list  *)
(***************************************************************************)
Titles == <<"a1", "a2", "a3", "a4", "a5", "a6", "a7", "a8", "a9", "a10", "a11", "a12">>
ScoreValues == {20, 60, 85}
Thresholds == {0, 60, 61}

\* what an article of a scored list may carry: a hot_score, or none
ScoredFields == {[hot_score |-> h] : h \in ScoreValues} \cup {NoDict}

\* the lists of n articles: the i-th has the i-th title, so that two
\* articles of a list are always told apart
ListsOf(n, fields) ==
    {[i \in 1..n |-> Update([title |-> Titles[i]], f[i])] : f \in [1..n -> fields]}

InitScore ==
    /\ PipeIdle
    /\ pc = "start"
    /\ \E n \in 0..MaxLen : articles \in ListsOf(n, ScoredFields)
    /\ arg = NoDict
    /\ ret = <<>>

FilterByHotScore ==
    /\ pc = "start"
    /\ \E t \in Thresholds :
          /\ arg' = [threshold |-> t]
          /\ ret' = filter_by_hot_score(articles, t)
    /\ pc' = "filter_by_hot_score"
    /\ UNCHANGED <<articles, pipeVars>>

SortByHotScore ==
    /\ pc = "start"
    /\ \E r \in BOOLEAN :
          /\ arg' = [reverse |-> r]
          /\ ret' = sort_by_hot_score(articles, r)
    /\ pc' = "sort_by_hot_score"
    /\ UNCHANGED <<articles, pipeVars>>

NextScore == FilterByHotScore \/ SortByHotScore

SpecScore == InitScore /\ [][NextScore]_vars

(***************************************************************************)
(* ReportGenerator.generate_report: grouping and statistics                *)
(***************************************************************************)
category_order ==
    <<"major_news", "industry_news", "product_release", "tech_article", "opinion">>

FALLBACK_CATEGORY == "industry_news"

\* An insertion-ordered dict of lists: keys in insertion order, val[k] the list.
EmptyBuckets == [keys |-> <<>>, val |-> NoDict]

\* categories[cat] = []
AddBucket(cats, cat) ==
    [keys |-> Append(cats.keys, cat), val |-> Update(cats.val, (cat :> <<>>))]

\* for cat in category_order: categories[cat] = []
RECURSIVE InitialBuckets(_, _)
InitialBuckets(cats, order) ==
    IF order = <<>> THEN cats
    ELSE InitialBuckets(AddBucket(cats, Head(order)), Tail(order))

\* for article in articles: ... categories[cat].append(article)
RECURSIVE GroupByCategory(_, _)
GroupByCategory(cats, as) ==
    IF as = <<>> THEN cats
    ELSE LET article == Head(as)
             cat     == Get(article, "category", FALLBACK_CATEGORY)
             cats1   == IF cat \notin DOMAIN cats.val THEN AddBucket(cats, cat) ELSE cats
             cats2   == [cats1 EXCEPT !.val[cat] = Append(@, article)]
         IN  GroupByCategory(cats2, Tail(as))

\* Mutant of SortBuckets: reverse=True forgotten, the buckets sorted ascending.
SortBucketsAscending(cats) ==
    [cats EXCEPT !.val = [k \in DOMAIN cats.val |-> SortedFrom(<<>>, cats.val[k], FALSE)]]

\* for cat in categories: categories[cat].sort(key=hot_score, reverse=True)
SortBuckets(cats) ==
    [cats EXCEPT !.val = [k \in DOMAIN cats.val |-> SortedFrom(<<>>, cats.val[k], TRUE)]]

\* Mutant of SumScores: an article without hot_score counted as 50, the
\* default of the classification, instead of 0.
RECURSIVE SumScoresDefaultFifty(_)
SumScoresDefaultFifty(as) ==
    IF as = <<>> THEN 0
    ELSE Get(Head(as), "hot_score", 50) + SumScoresDefaultFifty(Tail(as))

RECURSIVE SumScores(_)
SumScores(as) == IF as = <<>> THEN 0 ELSE HotScoreOf(Head(as)) + SumScores(Tail(as))

\* The values generate_report hands to the template.  avg_hot_score is the
\* quotient num / den (den = 1 and num = 0 for the empty list).
ReportOf(as) ==
    LET categories == SortBuckets(GroupByCategory(
                          InitialBuckets(EmptyBuckets, category_order), as))
    IN  [categories       |-> categories,
         total_articles   |-> Len(as),
         avg_hot_score    |-> IF as # <<>> THEN [num |-> SumScores(as), den |-> Len(as)]
                              ELSE [num |-> 0, den |-> 1],
         total_sources    |-> Cardinality({Get(as[i], "source", "") : i \in DOMAIN as}),
         total_categories |-> Cardinality({k \in DOMAIN categories.val :
                                              categories.val[k] # <<>>})]

(***************************************************************************)
(* SpecReport: generate_report applied to a scored, classified list        *)
(***************************************************************************)
CategoryValues == {"major_news", "startup", "rumour"}

ReportFields ==
    {Update(c, h) : c \in {[category |-> x] : x \in CategoryValues} \cup {NoDict},
                    h \in {[hot_score |-> x] : x \in {20, 60}} \cup {NoDict}}

InitReport ==
    /\ PipeIdle
    /\ pc = "start"
    /\ \E n \in 0..MaxLen : articles \in ListsOf(n, ReportFields)
    /\ arg = NoDict
    /\ ret = <<>>

GenerateReport ==
    /\ pc = "start"
    /\ ret' = ReportOf(articles)
    /\ pc' = "generate_report"
    /\ UNCHANGED <<articles, arg, pipeVars>>

NextReport == GenerateReport

SpecReport == InitReport /\ [][NextReport]_vars

(***************************************************************************)
(* SpecStats: generate_report applied to lists that differ in their        *)
(* scores and sources                                                      *)
(***************************************************************************)
MaxStats == 3       \* longest article list whose statistics are computed

StatsFields ==
    {Update(Update(c, h), s) :
        c \in {[category |-> "major_news"], NoDict},
        h \in {[hot_score |-> x] : x \in {20, 60}} \cup {NoDict},
        s \in {[source |-> x] : x \in {"36kr", "huxiu"}} \cup {NoDict}}

InitStats ==
    /\ PipeIdle
    /\ pc = "start"
    /\ \E n \in 0..MaxStats : articles \in ListsOf(n, StatsFields)
    /\ arg = NoDict
    /\ ret = <<>>

SpecStats == InitStats /\ [][NextReport]_vars

(***************************************************************************)
(* RSSFetcher.deduplicate                                                  *)
(***************************************************************************)
\* Mutant of ArticleKey: the key built from the title alone.
TitleOnlyKey(article) == <<article["title"]>>

\* key = (article['title'], article['link'])
ArticleKey(article) == <<article["title"], article["link"]>>

\* the loop of deduplicate: seen is the set of keys met, unique the list built
RECURSIVE DedupLoop(_, _, _)
DedupLoop(seen, unique_articles, rest) ==
    IF rest = <<>> THEN unique_articles
    ELSE LET article == Head(rest)
             key     == ArticleKey(article)
         IN  IF key \notin seen
             THEN DedupLoop(seen \cup {key}, Append(unique_articles, article), Tail(rest))
             ELSE DedupLoop(seen, unique_articles, Tail(rest))

\* Mutant of deduplicate: of the articles of one key the last is kept.
deduplicate_keep_last(as) == Reverse(DedupLoop({}, <<>>, Reverse(as)))

deduplicate(as) == DedupLoop({}, <<>>, as)

(***************************************************************************)
(* SpecDedup: deduplicate applied to a fetched list                        *)
(***************************************************************************)
\* the articles a fetch may deliver, as far as deduplicate reads them
FetchedArticles ==
    {[title |-> t, link |-> l, source |-> s] :
        t \in {"t1", "t2"}, l \in {"l1", "l2"}, s \in {"36kr", "huxiu"}}

InitDedup ==
    /\ PipeIdle
    /\ pc = "start"
    /\ \E n \in 0..MaxLen : articles \in [1..n -> FetchedArticles]
    /\ arg = NoDict
    /\ ret = <<>>

Deduplicate ==
    /\ pc = "start"
    /\ ret' = deduplicate(articles)
    /\ pc' = "deduplicate"
    /\ UNCHANGED <<articles, arg, pipeVars>>

NextDedup == Deduplicate

SpecDedup == InitDedup /\ [][NextDedup]_vars

(***************************************************************************)
(* AIProcessor._analyze_article and _get_default_analysis                  *)
(*                                                                         *)
(* A JSON value given for hot_score is the record [t, n]:                  *)
(*   t = "int"       the integer n                                         *)
(*   t = "float"     the float n / 10                                      *)
(*   t = "intstr"    the string spelling the integer n, as "85"            *)
(*   t = "floatstr"  the string spelling the float n / 10, as "85.5"       *)
(*   t = "text"      a string that spells no number                        *)
(*   t = "null"      null                                                  *)
(* A JSON value given for keywords is [t, items]: t = "list" with its      *)
(* items, or t = "null".  category and reasoning are strings, summary a    *)
(* text.  An operation that may raise returns [exc, val]: exc = "none" and *)
(* the value, or the name of the exception raised.                         *)
(***************************************************************************)
IntValue(n) == [t |-> "int", n |-> n]
ListValue(items) == [t |-> "list", items |-> items]

Return(v) == [exc |-> "none", val |-> v]
Raise(e) == [exc |-> e, val |-> NoDict]

\* the exception int(v) raises, "none" when it converts
IntRaises(v) ==
    CASE v.t \in {"int", "float", "intstr"} -> "none"
      [] v.t \in {"floatstr", "text"}       -> "ValueError"
      [] OTHER                              -> "TypeError"

\* int(v): a float is truncated towards zero
IntOf(v) ==
    IF v.t = "float"
    THEN (IF v.n >= 0 THEN v.n \div 10 ELSE -((-v.n) \div 10))
    ELSE v.n

\* the exception v[:5] raises, "none" when v can be sliced
SliceRaises(v) == IF v.t = "list" THEN "none" ELSE "TypeError"

RequestExceptions == {"ConnectionError", "HTTPError"}
Exceptions ==
    RequestExceptions \cup
        {"JSONDecodeError", "ValueError", "TypeError", "KeyError", "AttributeError",
         "FileNotFoundError", "PermissionError", "OSError", "Exception"}

\* Mutant of ExceptException: the handler written for the transport errors only.
ExceptRequestException(exc) == exc \in RequestExceptions

\* except Exception: every exception the body raises is caught
ExceptException(exc) == exc \in Exceptions

\* except json.JSONDecodeError
ExceptJSONDecodeError(exc) == exc = "JSONDecodeError"

\* Mutant of HasKey: the test written `is not None`, so that '' is a key.
KeyIsNotNone(key) == key # PyNone

\* `if not self.api_key` does not hold: a credential is configured
HasKey(key) == Truthy(key)

\* Mutant of ClampScore: the lower limit forgotten.
ClampScoreAbove(n) == Min(100, n)

\* min(100, max(0, n))
ClampScore(n) == Min(100, Max(0, n))

\* _get_default_analysis(article)
get_default_analysis(article) ==
    [category  |-> "industry_news",
     summary   |-> article["summary"],
     hot_score |-> 50,
     keywords  |-> IF Get(article, "tags", <<>>) # <<>>
                   THEN Take(Get(article, "tags", <<>>), 3) ELSE <<>>,
     reasoning |-> "ai_unavailable"]

\* Mutant of ValidatedAnalysis: a missing field filled with the value the
\* default analysis has for it.
ValidatedAnalysisFromDefault(article, result) ==
    LET d         == get_default_analysis(article)
        hot_score == Get(result, "hot_score", IntValue(d.hot_score))
        keywords  == Get(result, "keywords", ListValue(d.keywords))
    IN  IF IntRaises(hot_score) # "none" THEN Raise(IntRaises(hot_score))
        ELSE IF SliceRaises(keywords) # "none" THEN Raise(SliceRaises(keywords))
        ELSE Return([category  |-> Get(result, "category", d.category),
                     summary   |-> Get(result, "summary", d.summary),
                     hot_score |-> ClampScore(IntOf(hot_score)),
                     keywords  |-> Take(keywords.items, 5),
                     reasoning |-> Get(result, "reasoning", d.reasoning)])

\* "Validate and clean result": the dict built from the parsed reply; int()
\* and the slice may raise.
ValidatedAnalysis(article, result) ==
    LET hot_score == Get(result, "hot_score", IntValue(50))
        keywords  == Get(result, "keywords", ListValue(<<>>))
    IN  IF IntRaises(hot_score) # "none" THEN Raise(IntRaises(hot_score))
        ELSE IF SliceRaises(keywords) # "none" THEN Raise(SliceRaises(keywords))
        ELSE Return([category  |-> Get(result, "category", "industry_news"),
                     summary   |-> Get(result, "summary", TakeText(article["summary"], 100)),
                     hot_score |-> ClampScore(IntOf(hot_score)),
                     keywords  |-> Take(keywords.items, 5),
                     reasoning |-> Get(result, "reasoning", "")])

\* The inner try block: json.loads and the validation, with its handler.
ParseReply(article, reply) ==
    LET body == CASE reply.kind = "content_not_json"   -> Raise("JSONDecodeError")
                  [] reply.kind = "content_not_object" -> Raise("AttributeError")
                  [] OTHER -> ValidatedAnalysis(article, reply.obj)
    IN  IF ExceptJSONDecodeError(body.exc) THEN Return(get_default_analysis(article))
        ELSE body

\* The outer try block: the request, the status check, the completion
\* structure, then the inner block.
RequestAnalysis(article, reply) ==
    CASE reply.kind = "network_error" -> Raise("ConnectionError")
      [] reply.kind = "http_error"    -> Raise("HTTPError")
      [] reply.kind = "body_not_json" -> Raise("JSONDecodeError")
      [] reply.kind = "no_completion" -> Raise("KeyError")
      [] OTHER -> ParseReply(article, reply)

\* _analyze_article(article), the remote service answering reply
analyze_article(key, article, reply) ==
    IF ~HasKey(key) THEN Return(get_default_analysis(article))
    ELSE LET body == RequestAnalysis(article, reply)
         IN  IF body.exc = "none" THEN body
             ELSE IF ExceptException(body.exc) THEN Return(get_default_analysis(article))
             ELSE body

\* whether the reply made the try block raise
AnalysisFailed(article, reply) ==
    \/ RequestAnalysis(article, reply).exc # "none"
    \/ reply.kind = "content_not_json"

\* no hot_score in the reply
Absent == [t |-> "absent", n |-> 0]

\* What the log keeps of one classification request: the article it was
\* for, whether the try block raised, and the hot_score the reply gave.
RequestRecord(article, reply) ==
    [key       |-> <<article["title"], article["link"]>>,
     failed    |-> AnalysisFailed(article, reply),
     hot_score |-> Get(reply.obj, "hot_score", Absent)]

(***************************************************************************)
(* SpecAnalyze: _analyze_article applied to one article                    *)
(***************************************************************************)
KeyValues == {PyNone, "", "sk-1"}

TagLists == {<<>>, <<"g1", "g2">>, <<"g1", "g2", "g3", "g4">>}

\* articles as _parse_entry builds them, as far as the analysis reads them
AnalysisArticles ==
    {Update([title |-> "t1", link |-> "l1", source |-> "36kr",
             summary |-> [base |-> "content", len |-> n]], g) :
        n \in {40, 250}, g \in {[tags |-> x] : x \in TagLists} \cup {NoDict}}

FailureKinds ==
    {"network_error", "http_error", "body_not_json", "no_completion",
     "content_not_json", "content_not_object"}

HotScoreReplies ==
    {IntValue(-5), IntValue(85), IntValue(150), [t |-> "float", n |-> 857],
     [t |-> "intstr", n |-> 85], [t |-> "floatstr", n |-> 855],
     [t |-> "text", n |-> 0], [t |-> "null", n |-> 0]}

KeywordReplies ==
    {ListValue(<<"k1", "k2", "k3">>), ListValue(<<"k1", "k2", "k3", "k4", "k5", "k6">>),
     [t |-> "null", items |-> <<>>]}

\* the JSON objects the service may answer: every field present or missing
ReplyObjects ==
    {Update(Update(Update(Update(c, s), h), k), r) :
        c \in {[category |-> x] : x \in {"major_news", "startup"}} \cup {NoDict},
        s \in {[summary |-> [base |-> "ai_summary", len |-> 120]], NoDict},
        h \in {[hot_score |-> x] : x \in HotScoreReplies} \cup {NoDict},
        k \in {[keywords |-> x] : x \in KeywordReplies} \cup {NoDict},
        r \in {[reasoning |-> "ai_reasoning"], NoDict}}

Replies ==
    {[kind |-> x, obj |-> NoDict] : x \in FailureKinds}
        \cup {[kind |-> "object", obj |-> o] : o \in ReplyObjects}

\* AIProcessor.__init__: self.api_key = api_key or os.getenv('DEEPSEEK_API_KEY')
ProcessorKey(key_arg, env) == Or(key_arg, env)

InitAnalyze ==
    /\ pc = "start"
    /\ env_key \in KeyValues
    /\ \E k \in KeyValues : arg = [api_key |-> k] /\ api_key = ProcessorKey(k, env_key)
    /\ \E a \in AnalysisArticles : articles = <<a>>
    /\ ret = NoDict
    /\ sources = <<>> /\ fetch_i = 0 /\ fetch_log = <<>>
    /\ proc_i = 0 /\ processed = <<>> /\ all_processed = <<>>
    /\ ai_log = <<>> /\ files = NoDict /\ exit_status = "none"
    /\ config = NoConfig /\ now = 0 /\ raised = NotRaised /\ prev_files = NoDict

\* one call with a credential: the request is issued and answered by reply
AnalyzeArticle ==
    /\ pc = "start"
    /\ HasKey(api_key)
    /\ \E reply \in Replies :
          /\ arg' = reply
          /\ ret' = analyze_article(api_key, articles[1], reply)
          /\ ai_log' = Append(ai_log, RequestRecord(articles[1], reply))
    /\ pc' = "analyze_article"
    /\ UNCHANGED <<articles, env_key, api_key, sources, fetch_i, fetch_log, proc_i,
                   processed, all_processed, files, exit_status, config, now, raised,
                   prev_files>>

\* one call without credential: no request
AnalyzeArticleNoKey ==
    /\ pc = "start"
    /\ ~HasKey(api_key)
    /\ ret' = analyze_article(api_key, articles[1], [kind |-> "none", obj |-> NoDict])
    /\ pc' = "analyze_article"
    /\ UNCHANGED <<articles, arg, pipeVars>>

NextAnalyze == AnalyzeArticle \/ AnalyzeArticleNoKey

SpecAnalyze == InitAnalyze /\ [][NextAnalyze]_vars

(***************************************************************************)
(* RSSFetcher: the registry, _parse_entry, fetch_feed                      *)
(***************************************************************************)
\* _get_default_sources(); "tech_media" = '科技媒体'
default_sources ==
    << [name |-> "36kr", url |-> "https://36kr.com/feed",
        category |-> "tech_media", enabled |-> TRUE, language |-> "zh"],
       [name |-> "huxiu", url |-> "https://www.huxiu.com/rss/0.xml",
        category |-> "tech_media", enabled |-> TRUE, language |-> "zh"],
       [name |-> "sspai", url |-> "https://sspai.com/feed",
        category |-> "tech_media", enabled |-> TRUE, language |-> "zh"] >>

\* except FileNotFoundError / except json.JSONDecodeError
LoadHandlers(exc) == exc \in {"FileNotFoundError", "JSONDecodeError"}

\* [s for s in ... if s.get('enabled', True)]
RECURSIVE EnabledSources(_)
EnabledSources(ss) ==
    IF ss = <<>> THEN <<>>
    ELSE (IF Get(Head(ss), "enabled", TRUE) THEN <<Head(ss)>> ELSE <<>>)
             \o EnabledSources(Tail(ss))

\* _load_sources(): open, json.load, config.get('sources', []), the
\* comprehension, and the two handlers.  A configuration file is the record
\* [kind, doc]: kind = "missing" (no such file), "not_openable" (open raises
\* PermissionError), "not_json", or "json" with the document doc = [t, obj],
\* t = "object" with the dict obj, or t = "list" (a JSON array).  The value
\* of 'sources' is [t, items], as keywords is.
load_sources(cfg) ==
    LET listed == Get(cfg.doc.obj, "sources", ListValue(<<>>))
        body   == IF cfg.kind = "missing" THEN Raise("FileNotFoundError")
                  ELSE IF cfg.kind = "not_openable" THEN Raise("PermissionError")
                  ELSE IF cfg.kind = "not_json" THEN Raise("JSONDecodeError")
                  ELSE IF cfg.doc.t # "object" THEN Raise("AttributeError")
                  ELSE IF listed.t # "list" THEN Raise("TypeError")
                  ELSE Return(EnabledSources(listed.items))
    IN  IF body.exc = "none" THEN body
        ELSE IF LoadHandlers(body.exc) THEN Return(default_sources)
        ELSE body

NoText == [base |-> "", len |-> 0]

\* _parse_entry(entry, source): the article dict, or None (here the empty
\* dict, falsy as well) when the parsing raises.  The keys published,
\* authors, source_category and language, which no later step of the model
\* reads, are left out.
parse_entry(entry, source) ==
    IF entry["bad"] THEN NoDict
    ELSE LET content == Get(entry, "content", NoText)
         IN  [title   |-> Get(entry, "title", "No Title"),
              link    |-> Get(entry, "link", ""),
              content |-> TakeText(content, 5000),
              summary |-> TakeText(content, 300),
              source  |-> source["name"],
              tags    |-> Get(entry, "tags", <<>>)]

\* for entry in feed.entries: ... if article: articles.append(article)
RECURSIVE ParseEntries(_, _, _)
ParseEntries(found, entries, source) ==
    IF entries = <<>> THEN found
    ELSE LET article == parse_entry(Head(entries), source)
         IN  ParseEntries(IF article # NoDict THEN Append(found, article) ELSE found,
                          Tail(entries), source)

\* Mutant of FetchHandlers: the second handler (except Exception) left out.
FetchHandlersRequestOnly(exc) == exc \in RequestExceptions

\* except requests.exceptions.RequestException / except Exception
FetchHandlers(exc) == exc \in RequestExceptions \/ exc \in Exceptions

\* fetch_feed(source), the feed server answering response.  source['url']
\* and source['name'] are read before the try block.  Every raise of the try
\* block precedes the first append, so a handled failure returns [].
fetch_feed(source, response) ==
    IF ~({"url", "name"} \subseteq DOMAIN source) THEN Raise("KeyError")
    ELSE LET body == CASE response.kind = "network_error" -> Raise("ConnectionError")
                       [] response.kind = "http_error"    -> Raise("HTTPError")
                       [] response.kind = "parse_error"   -> Raise("Exception")
                       [] OTHER -> Return(ParseEntries(<<>>, response.entries, source))
         IN  IF body.exc = "none" THEN body
             ELSE IF FetchHandlers(body.exc) THEN Return(<<>>)
             ELSE body

(***************************************************************************)
(* Spec: one run of main                                                   *)
(***************************************************************************)
MaxEntries == 1     \* most entries one feed delivers

batch_size == 5

FeedEntries ==
    {[title |-> "t1", link |-> "l1", content |-> [base |-> "c1", len |-> 40],
      tags |-> <<>>, bad |-> FALSE],
     [title |-> "t1", link |-> "l2", content |-> [base |-> "c2", len |-> 350],
      tags |-> <<"g1", "g2", "g3", "g4">>, bad |-> FALSE],
     [bad |-> TRUE]}

FeedResponses ==
    {[kind |-> x, entries |-> <<>>] : x \in {"network_error", "http_error", "parse_error"}}
        \cup {[kind |-> "ok", entries |-> e] :
                 e \in UNION {[1..n -> FeedEntries] : n \in 0..MaxEntries}}

\* the replies of the remote service within a run: every failure, the empty
\* object, and the complete object with every kind of hot_score
PipelineReplies ==
    {[kind |-> x, obj |-> NoDict] : x \in FailureKinds}
        \cup {[kind |-> "object", obj |-> NoDict]}
        \cup {[kind |-> "object",
               obj  |-> [category  |-> "major_news",
                         summary   |-> [base |-> "ai_summary", len |-> 120],
                         hot_score |-> h,
                         keywords  |-> ListValue(<<"k1", "k2", "k3", "k4", "k5", "k6">>),
                         reasoning |-> "ai_reasoning"]] : h \in HotScoreReplies}

\* os.getenv(name, default)
GetEnv(value, default) == IF value = PyNone THEN default ELSE value

\* sources of a configuration file: ithome is enabled, solidot is disabled,
\* the third entry has neither 'url' nor 'enabled'
ConfigSource(name, enabled) ==
    [name |-> name, url |-> "https://example.org/feed", category |-> "tech_media",
     enabled |-> enabled, language |-> "zh"]

EntryWithoutUrl == [name |-> "nourl", category |-> "tech_media", language |-> "zh"]

JsonObject(obj) == [t |-> "object", obj |-> obj]

\* the configuration files a run may find
ConfigFiles ==
    {[kind |-> k, doc |-> JsonObject(NoDict)] : k \in {"missing", "not_openable", "not_json"}}
        \cup {[kind |-> "json", doc |-> d] :
                 d \in {[t |-> "list", obj |-> NoDict],
                        JsonObject(NoDict),
                        JsonObject([sources |-> [t |-> "null", items |-> <<>>]]),
                        JsonObject([sources |-> ListValue(<<ConfigSource("ithome", TRUE),
                                                            ConfigSource("solidot", FALSE)>>)]),
                        JsonObject([sources |-> ListValue(<<ConfigSource("ithome", TRUE),
                                                            EntryWithoutUrl>>)])}}

MaxTick == 2        \* last tick of the clock

\* datetime.now(): the clock never goes back
ClockReads(t) == t..MaxTick

\* the day of a tick: two ticks a day
DayOf(t) == t \div 2

\* strftime('%Y-%m-%d')
date_str(t) == "2026-01-0" \o ToString(DayOf(t) + 1)

\* strftime of report_date, the same day spelled with year, month and day
\* signs
report_date(t) == "2026y01m0" \o ToString(DayOf(t) + 1) \o "d"

\* the outcomes of creating the directory and writing a file
WriteOutcomes == {"ok", "OSError"}

Init ==
    /\ pc = "load_sources"
    /\ articles = <<>>
    /\ arg = NoDict
    /\ ret = <<>>
    /\ env_key \in KeyValues
    /\ api_key = PyNone
    /\ sources = <<>>
    /\ fetch_i = 1
    /\ fetch_log = <<>>
    /\ proc_i = 0
    /\ processed = <<>>
    /\ all_processed = <<>>
    /\ ai_log = <<>>
    /\ files = NoDict
    /\ exit_status = "none"
    /\ config \in ConfigFiles
    /\ now = MaxTick - 1    \* the clock can advance once during the run
    /\ raised = NotRaised
    /\ prev_files = NoDict

\* Mutant of MainExcept: the handler logs the error and lets main return.
MainExceptReturns(stage, exc) ==
    /\ pc' = "done"
    /\ exit_status' = "zero"
    /\ raised' = [stage |-> stage, exc |-> exc]

\* main's handler: except Exception ... sys.exit(1), for the exception exc
\* raised in stage
MainExcept(stage, exc) ==
    /\ pc' = "done"
    /\ exit_status' = "nonzero"
    /\ raised' = [stage |-> stage, exc |-> exc]

\* main: fetcher = RSSFetcher(), whose __init__ calls _load_sources
LoadSources ==
    /\ pc = "load_sources"
    /\ LET r == load_sources(config)
       IN  IF r.exc = "none"
           THEN /\ sources' = r.val
                /\ pc' = "fetch_all"
                /\ UNCHANGED <<exit_status, raised>>
           ELSE /\ ExceptException(r.exc)
                /\ MainExcept("load_sources", r.exc)
                /\ UNCHANGED sources
    /\ UNCHANGED <<articles, arg, ret, env_key, api_key, fetch_i, fetch_log, proc_i,
                   processed, all_processed, ai_log, files, config, now, prev_files>>

\* Mutant of NextSource: a failed source is fetched again.
RetrySource(i, failed) == IF failed THEN i ELSE i + 1

\* for i, source in enumerate(self.sources): the source after source i
NextSource(i, failed) == i + 1

\* fetch_all: one turn of the loop, articles being all_articles.  A request
\* is issued, and logged, when source has its url and name.
FetchFeed ==
    /\ pc = "fetch_all"
    /\ fetch_i <= Len(sources)
    /\ \E response \in FeedResponses :
          LET r == fetch_feed(sources[fetch_i], response)
              failed == response.kind # "ok"
          IN  /\ fetch_log' =
                    IF {"url", "name"} \subseteq DOMAIN sources[fetch_i]
                    THEN Append(fetch_log,
                             [source |-> fetch_i, failed |-> failed, count |-> Len(r.val)])
                    ELSE fetch_log
              /\ IF r.exc = "none"
                 THEN /\ articles' = articles \o r.val
                      /\ fetch_i' = NextSource(fetch_i, failed)
                      /\ UNCHANGED <<pc, exit_status, raised>>
                 ELSE /\ ExceptException(r.exc)
                      /\ MainExcept("fetch_all", r.exc)
                      /\ UNCHANGED <<articles, fetch_i>>
    /\ UNCHANGED <<arg, ret, env_key, api_key, sources, proc_i, processed,
                   all_processed, ai_log, files, config, now, prev_files>>

\* Mutant of MainNoArticles: the empty fetch ends the process with an error.
MainNoArticlesExitsOne ==
    /\ pc = "fetch_all"
    /\ fetch_i > Len(sources)
    /\ articles = <<>>
    /\ pc' = "done"
    /\ exit_status' = "nonzero"
    /\ UNCHANGED <<articles, arg, ret, env_key, api_key, sources, fetch_i, fetch_log,
                   proc_i, processed, all_processed, ai_log, files, config, now, raised,
                   prev_files>>

\* main: if not articles: return
MainNoArticles ==
    /\ pc = "fetch_all"
    /\ fetch_i > Len(sources)
    /\ articles = <<>>
    /\ pc' = "done"
    /\ exit_status' = "zero"
    /\ UNCHANGED <<articles, arg, ret, env_key, api_key, sources, fetch_i, fetch_log,
                   proc_i, processed, all_processed, ai_log, files, config, now, raised,
                   prev_files>>

\* main: articles = fetcher.deduplicate(articles); processor = AIProcessor(
\* api_key=os.getenv('DEEPSEEK_API_KEY', ''))
MainDeduplicate ==
    /\ pc = "fetch_all"
    /\ fetch_i > Len(sources)
    /\ articles # <<>>
    /\ articles' = deduplicate(articles)
    /\ api_key' = ProcessorKey(GetEnv(env_key, ""), env_key)
    /\ pc' = "process_all"
    /\ UNCHANGED <<arg, ret, env_key, sources, fetch_i, fetch_log, proc_i, processed,
                   all_processed, ai_log, files, exit_status, config, now, raised,
                   prev_files>>

\* process_all without credential: every article gets the default analysis
ProcessAllNoKey ==
    /\ pc = "process_all"
    /\ ~HasKey(api_key)
    /\ articles' = [i \in DOMAIN articles |->
                       Update(articles[i], get_default_analysis(articles[i]))]
    /\ pc' = "sort_by_hot_score"
    /\ UNCHANGED <<arg, ret, env_key, api_key, sources, fetch_i, fetch_log, proc_i,
                   processed, all_processed, ai_log, files, exit_status, config, now,
                   raised, prev_files>>

\* Mutant of NextBatch: the batches taken one article too far apart.
NextBatchTooFar(i) == i + batch_size + 1

\* for i in range(0, len(articles), self.batch_size): the start after i
NextBatch(i) == i + batch_size

\* len(articles[i:i + self.batch_size]) for a list of n articles
BatchLen(n, i) == Min(batch_size, n - i)

\* process_batch: one turn of the loop over batch = articles[i:i + batch_size],
\* the remote service answering one of replies; the last turn of a batch
\* also extends all_processed and moves to the next batch.  The dicts of the
\* batch are those of articles, updated in place.
ProcessArticleWith(replies) ==
    /\ pc = "process_all"
    /\ HasKey(api_key)
    /\ proc_i < Len(articles)
    /\ \E reply \in replies :
          LET batch_len == BatchLen(Len(articles), proc_i)
              idx       == proc_i + Len(processed) + 1
              r         == analyze_article(api_key, articles[idx], reply)
              article   == Update(articles[idx], r.val)
              done      == Append(processed, article)
          IN  /\ ai_log' = Append(ai_log, RequestRecord(articles[idx], reply))
              /\ IF r.exc = "none"
                 THEN /\ articles' = [articles EXCEPT ![idx] = article]
                      /\ IF Len(done) = batch_len
                         THEN /\ all_processed' = all_processed \o done
                              /\ processed' = <<>>
                              /\ proc_i' = NextBatch(proc_i)
                         ELSE /\ processed' = done
                              /\ UNCHANGED <<all_processed, proc_i>>
                      /\ UNCHANGED <<pc, exit_status, raised>>
                 ELSE /\ ExceptException(r.exc)
                      /\ MainExcept("process_all", r.exc)
                      /\ UNCHANGED <<articles, processed, all_processed, proc_i>>
    /\ UNCHANGED <<arg, ret, env_key, api_key, sources, fetch_i, fetch_log, files,
                   config, now, prev_files>>

ProcessArticle == ProcessArticleWith(PipelineReplies)

\* process_all: return all_processed
ProcessAllReturn ==
    /\ pc = "process_all"
    /\ HasKey(api_key)
    /\ proc_i >= Len(articles)
    /\ articles' = all_processed
    /\ pc' = "sort_by_hot_score"
    /\ UNCHANGED <<arg, ret, env_key, api_key, sources, fetch_i, fetch_log, proc_i,
                   processed, all_processed, ai_log, files, exit_status, config, now,
                   raised, prev_files>>

\* main: articles = processor.sort_by_hot_score(articles)
MainSort ==
    /\ pc = "sort_by_hot_score"
    /\ articles' = sort_by_hot_score(articles, TRUE)
    /\ pc' = "generate_report"
    /\ UNCHANGED <<arg, ret, env_key, api_key, sources, fetch_i, fetch_log, proc_i,
                   processed, all_processed, ai_log, files, exit_status, config, now,
                   raised, prev_files>>

\* the document generate_report renders for a list: report_date read from
\* the clock at t1, generation_time (the tick itself) at t2
Html(as, t1, t2) ==
    [report_date |-> report_date(t1), generation_time |-> t2, report |-> ReportOf(as)]

\* Mutant of WriteFile: the file opened in mode 'a'.
AppendFile(fs, path, content) ==
    Update(fs, (path :> Append(Get(fs, path, <<>>), content)))

\* open(path, 'w') ... write(content): what a file holds is the list of the
\* contents written to it since it was last truncated; mode 'w' truncates
WriteFile(fs, path, content) == Update(fs, (path :> <<content>>))

\* main: generator.generate_report(articles, "docs/index.html")
MainReport ==
    /\ pc = "generate_report"
    /\ \E t1 \in ClockReads(now) : \E t2 \in ClockReads(t1) : \E w \in WriteOutcomes :
          /\ now' = t2
          /\ IF w = "ok"
             THEN /\ files' = WriteFile(files, "docs/index.html", Html(articles, t1, t2))
                  /\ pc' = "create_archive_entry"
                  /\ UNCHANGED <<exit_status, raised>>
             ELSE /\ ExceptException(w)
                  /\ MainExcept("generate_report", w)
                  /\ UNCHANGED files
    /\ UNCHANGED <<articles, arg, ret, env_key, api_key, sources, fetch_i, fetch_log,
                   proc_i, processed, all_processed, ai_log, config, prev_files>>

\* main: generator.create_archive_entry(articles, "docs/archive"): the file
\* name is made of the date read at t0, then generate_report is called
MainArchive ==
    /\ pc = "create_archive_entry"
    /\ \E t0 \in ClockReads(now) : \E t1 \in ClockReads(t0) : \E t2 \in ClockReads(t1) :
       \E w \in WriteOutcomes :
          /\ now' = t2
          /\ IF w = "ok"
             THEN /\ files' = WriteFile(files,
                                  "docs/archive/report_" \o date_str(t0) \o ".html",
                                  Html(articles, t1, t2))
                  /\ pc' = "save_raw_data"
                  /\ UNCHANGED <<exit_status, raised>>
             ELSE /\ ExceptException(w)
                  /\ MainExcept("create_archive_entry", w)
                  /\ UNCHANGED files
    /\ UNCHANGED <<articles, arg, ret, env_key, api_key, sources, fetch_i, fetch_log,
                   proc_i, processed, all_processed, ai_log, config, prev_files>>

\* main: save_raw_data(articles, f"data/articles_{date_str}.json"), the
\* summary, and the normal end of the process
MainSaveRawData ==
    /\ pc = "save_raw_data"
    /\ \E t \in ClockReads(now) : \E w \in WriteOutcomes :
          /\ now' = t
          /\ IF w = "ok"
             THEN /\ files' = WriteFile(files, "data/articles_" \o date_str(t) \o ".json",
                                        articles)
                  /\ pc' = "done"
                  /\ exit_status' = "zero"
                  /\ UNCHANGED raised
             ELSE /\ ExceptException(w)
                  /\ MainExcept("save_raw_data", w)
                  /\ UNCHANGED files
    /\ UNCHANGED <<articles, arg, ret, env_key, api_key, sources, fetch_i, fetch_log,
                   proc_i, processed, all_processed, ai_log, config, prev_files>>

Next ==
    \/ LoadSources
    \/ FetchFeed
    \/ MainNoArticles
    \/ MainDeduplicate
    \/ ProcessAllNoKey
    \/ ProcessArticle
    \/ ProcessAllReturn
    \/ MainSort
    \/ MainReport
    \/ MainArchive
    \/ MainSaveRawData

Spec == Init /\ [][Next]_vars

(***************************************************************************)
(* SpecRerun: the report step of main (generate_report, then                *)
(* create_archive_entry) run, and run again with the same list             *)
(***************************************************************************)
MaxRerun == 2       \* longest article list given to the report step

\* classified articles, as process_all leaves them
RerunFields ==
    {[category |-> c, hot_score |-> h, source |-> "36kr"] :
        c \in {"major_news", "industry_news"}, h \in {50, 85}}

\* main is about to generate the report of a classified, sorted list
InitRerun ==
    /\ pc = "generate_report"
    /\ \E n \in 1..MaxRerun : \E l \in ListsOf(n, RerunFields) :
          articles = sort_by_hot_score(l, TRUE)
    /\ arg = NoDict
    /\ ret = <<>>
    /\ env_key = PyNone
    /\ api_key = PyNone
    /\ sources = default_sources
    /\ fetch_i = Len(default_sources) + 1
    /\ fetch_log = <<>>
    /\ proc_i = 0 /\ processed = <<>> /\ all_processed = <<>>
    /\ ai_log = <<>> /\ files = NoDict /\ exit_status = "none"
    /\ config = NoConfig /\ now = 0 /\ raised = NotRaised /\ prev_files = NoDict

\* the report step is entered again, by a later run of main that has the
\* same article list, the files of the first run being in place
Rerun ==
    /\ pc = "save_raw_data"
    /\ prev_files = NoDict
    /\ prev_files' = files
    /\ pc' = "generate_report"
    /\ UNCHANGED <<articles, arg, ret, env_key, api_key, sources, fetch_i, fetch_log,
                   proc_i, processed, all_processed, ai_log, files, exit_status, config,
                   now, raised>>

NextRerun == MainReport \/ MainArchive \/ Rerun

SpecRerun == InitRerun /\ [][NextRerun]_vars

(***************************************************************************)
(* SpecBatch: process_all with a credential, applied to lists shorter and  *)
(* longer than a batch                                                     *)
(***************************************************************************)
MaxBatch == 11      \* longest article list given to process_all

\* the articles of the list, as _parse_entry builds them
BatchFields ==
    {[link |-> "l1", content |-> [base |-> "c1", len |-> 350],
      summary |-> [base |-> "c1", len |-> 300], source |-> "36kr",
      tags |-> <<"g1", "g2", "g3", "g4">>]}

\* the replies of the remote service: a failed call, or a complete object
BatchReplies ==
    {[kind |-> "network_error", obj |-> NoDict],
     [kind |-> "object",
      obj  |-> [category  |-> "major_news",
                summary   |-> [base |-> "ai_summary", len |-> 120],
                hot_score |-> IntValue(85),
                keywords  |-> ListValue(<<"k1", "k2">>),
                reasoning |-> "ai_reasoning"]]}

\* process_all(articles) is entered; arg keeps the list as it was given
InitBatch ==
    /\ pc = "process_all"
    /\ \E n \in 0..MaxBatch : articles \in ListsOf(n, BatchFields)
    /\ arg = [articles |-> articles]
    /\ ret = <<>>
    /\ env_key = "sk-1"
    /\ api_key = "sk-1"
    /\ sources = <<>> /\ fetch_i = 0 /\ fetch_log = <<>>
    /\ proc_i = 0 /\ processed = <<>> /\ all_processed = <<>>
    /\ ai_log = <<>> /\ files = NoDict /\ exit_status = "none"
    /\ config = NoConfig /\ now = 0 /\ raised = NotRaised /\ prev_files = NoDict

ProcessBatchArticle == ProcessArticleWith(BatchReplies)

NextBatchStep == ProcessBatchArticle \/ ProcessAllReturn

SpecBatch == InitBatch /\ [][NextBatchStep]_vars

(***************************************************************************)
(* Claims about the list operations                                        *)
(***************************************************************************)
\* the hot_score a list operation reads from an article (0 when it has none)
ScoreRead(a) == IF "hot_score" \in DOMAIN a THEN a["hot_score"] ELSE 0

\* the i-th smallest element of a set of indices
NthOf(S, i) == CHOOSE j \in S : Cardinality({k \in S : k < j}) = i - 1

\* the position of article a in the list s
PosIn(s, a) == CHOOSE i \in DOMAIN s : s[i] = a

NonIncreasing(s) ==
    \A i, j \in DOMAIN s : i < j => ScoreRead(s[i]) >= ScoreRead(s[j])

KeptIdx == {j \in DOMAIN articles : ScoreRead(articles[j]) >= arg.threshold}

\* C8: filter_by_hot_score(articles, t) returns exactly the articles whose
\* hot_score is >= t (an article without hot_score is read as 0), in their
\* input order, and nothing else.
C8_FilterExact ==
    pc = "filter_by_hot_score" =>
        /\ Len(ret) = Cardinality(KeptIdx)
        /\ \A i \in 1..Len(ret) : ret[i] = articles[NthOf(KeptIdx, i)]

\* C8 witness: a filter that kept the first and the third article and dropped
\* the second, one of the kept ones scoring exactly the threshold.
C8_Witness ==
    /\ pc = "filter_by_hot_score"
    /\ Len(articles) = 3
    /\ ret = <<articles[1], articles[3]>>
    /\ ScoreRead(articles[1]) = arg.threshold

\* C9: sort_by_hot_score with the default reverse=True returns a permutation
\* of its input, non-increasing in hot_score, in which articles of equal
\* hot_score keep their input order.
C9_SortStableDescending ==
    (pc = "sort_by_hot_score" /\ arg.reverse) =>
        /\ Len(ret) = Len(articles)
        /\ Range(ret) = Range(articles)
        /\ NonIncreasing(ret)
        /\ \A i, j \in DOMAIN articles :
              (i < j /\ ScoreRead(articles[i]) = ScoreRead(articles[j]))
                  => PosIn(ret, articles[i]) < PosIn(ret, articles[j])

\* C9 witness: a descending sort that moved articles and had a tie to keep.
C9_Witness ==
    /\ pc = "sort_by_hot_score" /\ arg.reverse
    /\ ret # articles
    /\ \E i, j \in DOMAIN articles :
          i < j /\ ScoreRead(articles[i]) = ScoreRead(articles[j])

\* the bucket an article belongs to
CategoryRead(a) == IF "category" \in DOMAIN a THEN a["category"] ELSE "industry_news"

Canonical ==
    <<"major_news", "industry_news", "product_release", "tech_article", "opinion">>

FirstWith(cat) ==
    CHOOSE i \in DOMAIN articles :
        /\ CategoryRead(articles[i]) = cat
        /\ \A j \in DOMAIN articles : CategoryRead(articles[j]) = cat => i <= j

\* C10: generate_report partitions the list into buckets: the five canonical
\* categories first, in their fixed order; then one bucket per unrecognized
\* category, in order of first appearance; every article in exactly one
\* bucket, that of its category; every bucket non-increasing in hot_score.
C10_ReportPartition ==
    pc = "generate_report" =>
        LET keys == ret.categories.keys
            val  == ret.categories.val
        IN  /\ Len(keys) >= 5
            /\ SubSeq(keys, 1, 5) = Canonical
            /\ \A i, j \in DOMAIN keys : i # j => keys[i] # keys[j]
            /\ DOMAIN val = Range(keys)
            /\ {keys[i] : i \in 6..Len(keys)}
                  = {CategoryRead(articles[i]) : i \in DOMAIN articles} \ Range(Canonical)
            /\ \A i, j \in 6..Len(keys) :
                  i < j => FirstWith(keys[i]) < FirstWith(keys[j])
            /\ \A k \in Range(keys) :
                  /\ Range(val[k]) = {a \in Range(articles) : CategoryRead(a) = k}
                  /\ Len(val[k]) = Cardinality(Range(val[k]))
                  /\ NonIncreasing(val[k])

\* C10 witness: a report with two extra buckets and a canonical bucket whose
\* two articles were put in another order than their input order.
C10_Witness ==
    /\ pc = "generate_report"
    /\ Len(ret.categories.keys) = 7
    /\ \E k \in Range(Canonical) :
          /\ Len(ret.categories.val[k]) = 2
          /\ PosIn(articles, ret.categories.val[k][1])
                 > PosIn(articles, ret.categories.val[k][2])

\* the source name the statistics read from an article ('' when it has none)
SourceRead(a) == IF "source" \in DOMAIN a THEN a["source"] ELSE ""

\* the sum of the hot_score of the first n articles
RECURSIVE ScoreSumTo(_)
ScoreSumTo(n) == IF n = 0 THEN 0 ELSE ScoreRead(articles[n]) + ScoreSumTo(n - 1)

\* C11: the statistics of generate_report: the total is the number of
\* articles; the average (the quotient num / den) is the sum of all
\* hot_score divided by that number, and 0 for the empty list; the source
\* count is the number of different source names (an article without source
\* is read as the name ''); the category count is the number of non-empty
\* buckets, that is of different categories among the articles.
C11_ReportStatistics ==
    pc = "generate_report" =>
        /\ ret.total_articles = Len(articles)
        /\ ret.avg_hot_score.den > 0
        /\ articles # <<>> =>
              ret.avg_hot_score.num * Len(articles)
                  = ScoreSumTo(Len(articles)) * ret.avg_hot_score.den
        /\ articles = <<>> => ret.avg_hot_score.num = 0
        /\ ret.total_sources = Cardinality({SourceRead(a) : a \in Range(articles)})
        /\ ret.total_categories = Cardinality({CategoryRead(a) : a \in Range(articles)})
        /\ ret.total_categories
              = Cardinality({i \in DOMAIN ret.categories.keys :
                                ret.categories.val[ret.categories.keys[i]] # <<>>})

\* C11 witness: three articles of two sources and two categories, one of
\* them without hot_score: the average is 80 / 3.
C11_Witness ==
    /\ pc = "generate_report"
    /\ Len(articles) = 3
    /\ \E i \in DOMAIN articles : "hot_score" \notin DOMAIN articles[i]
    /\ ret.avg_hot_score = [num |-> 80, den |-> 3]
    /\ ret.total_sources = 2
    /\ ret.total_categories = 2

(***************************************************************************)
(* Claims about deduplicate                                                *)
(***************************************************************************)
SameKey(a, b) == a["title"] = b["title"] /\ a["link"] = b["link"]

\* the positions of the input that hold the first occurrence of their key
FirstIdx ==
    {j \in DOMAIN articles : \A i \in DOMAIN articles : i < j => ~SameKey(articles[i], articles[j])}

\* C1: deduplicate returns exactly the subsequence of the input made of the
\* first occurrence of each (title, link) pair: no two output articles share
\* a pair, the output is not longer than the input, and the first
\* occurrences keep their input order.
C1_DedupFirstOccurrences ==
    pc = "deduplicate" =>
        /\ Len(ret) = Cardinality(FirstIdx)
        /\ \A i \in 1..Len(ret) : ret[i] = articles[NthOf(FirstIdx, i)]
        /\ \A i, j \in DOMAIN ret : i # j => ~SameKey(ret[i], ret[j])
        /\ Len(ret) <= Len(articles)

\* C1 witness: a list in which a pair comes back after another pair, with
\* the same title under another link in between; the repeat is dropped.
C1_Witness ==
    /\ pc = "deduplicate"
    /\ Len(articles) = 3
    /\ SameKey(articles[1], articles[3])
    /\ articles[1]["source"] # articles[3]["source"]
    /\ articles[1]["title"] = articles[2]["title"]
    /\ articles[1]["link"] # articles[2]["link"]
    /\ ret = <<articles[1], articles[2]>>

(***************************************************************************)
(* Claims about _analyze_article                                           *)
(***************************************************************************)
\* the first up to three tags of an article
FirstThreeTags(a) ==
    LET tags == IF "tags" \in DOMAIN a THEN a["tags"] ELSE <<>>
    IN  [i \in 1..(IF Len(tags) < 3 THEN Len(tags) ELSE 3) |-> tags[i]]

\* the analysis the claims call the default analysis of article a
DefaultOf(a) ==
    [category  |-> "industry_news",
     summary   |-> a["summary"],
     hot_score |-> 50,
     keywords  |-> FirstThreeTags(a),
     reasoning |-> "ai_unavailable"]

\* C4: with a credential, any failure of the classification call (network
\* error, non-2xx response, reply without the completion structure, content
\* that is not JSON or not a JSON object) makes _analyze_article return the
\* default analysis, and no exception escapes.
C4_FailureGivesDefault ==
    (pc = "analyze_article" /\ Truthy(api_key) /\ arg.kind # "object") =>
        /\ ret.exc = "none"
        /\ ret.val = DefaultOf(articles[1])

\* C4 witness: a reply whose content is JSON but no object, for an article
\* with four tags, answered by the default analysis with three keywords.
C4_Witness ==
    /\ pc = "analyze_article" /\ Truthy(api_key)
    /\ arg.kind = "content_not_object"
    /\ "tags" \in DOMAIN articles[1] /\ Len(articles[1]["tags"]) = 4
    /\ ret.exc = "none"
    /\ Len(ret.val.keywords) = 3
    /\ ret.val.reasoning = "ai_unavailable"

\* the fields of the analysis
AnalysisFields == {"category", "summary", "hot_score", "keywords", "reasoning"}

\* the reply is an object whose hot_score and keywords, where given, can be
\* converted by int() and sliced
Convertible(obj) ==
    /\ "hot_score" \in DOMAIN obj => obj["hot_score"].t \in {"int", "float", "intstr"}
    /\ "keywords" \in DOMAIN obj => obj["keywords"].t = "list"

Clamped(v) ==
    LET n == IF v.t = "float" THEN (IF v.n >= 0 THEN v.n \div 10 ELSE -((-v.n) \div 10))
             ELSE v.n
    IN  IF n < 0 THEN 0 ELSE IF n > 100 THEN 100 ELSE n

FirstFive(items) == [i \in 1..(IF Len(items) < 5 THEN Len(items) ELSE 5) |-> items[i]]

\* the fields the reply gives are used: category, summary and reasoning
\* verbatim, hot_score converted and clamped, keywords cut to five
PresentFieldsUsed(obj, val) ==
    /\ \A f \in {"category", "summary", "reasoning"} \cap DOMAIN obj : val[f] = obj[f]
    /\ "hot_score" \in DOMAIN obj => val["hot_score"] = Clamped(obj["hot_score"])
    /\ "keywords" \in DOMAIN obj => val["keywords"] = FirstFive(obj["keywords"].items)

\* C5 as claimed: on a reply that is a JSON object, every missing field is
\* filled with the value the default analysis has for that field, and the
\* fields present are used.
C5_MissingFieldsAsDefault ==
    (pc = "analyze_article" /\ Truthy(api_key) /\ arg.kind = "object"
        /\ Convertible(arg.obj)) =>
        /\ ret.exc = "none"
        /\ \A f \in AnalysisFields \ DOMAIN arg.obj :
              ret.val[f] = DefaultOf(articles[1])[f]
        /\ PresentFieldsUsed(arg.obj, ret.val)

\* C5 amended: on a reply that is a JSON object whose hot_score and
\* keywords, where given, can be converted and sliced, a missing category
\* is the fallback category, a missing summary the first 100 characters of
\* the article's summary, a missing hot_score 50, a missing keywords the
\* empty list and a missing reasoning the empty string; the fields present
\* are used.  On an object whose hot_score or keywords cannot be converted,
\* the whole default analysis is returned.
C5_MissingFieldsFilled ==
    (pc = "analyze_article" /\ Truthy(api_key) /\ arg.kind = "object") =>
        /\ ret.exc = "none"
        /\ Convertible(arg.obj) =>
              /\ "category" \notin DOMAIN arg.obj => ret.val.category = "industry_news"
              /\ "summary" \notin DOMAIN arg.obj =>
                    /\ ret.val.summary.base = articles[1]["summary"].base
                    /\ ret.val.summary.len =
                          (IF articles[1]["summary"].len < 100
                           THEN articles[1]["summary"].len ELSE 100)
              /\ "hot_score" \notin DOMAIN arg.obj => ret.val.hot_score = 50
              /\ "keywords" \notin DOMAIN arg.obj => ret.val.keywords = <<>>
              /\ "reasoning" \notin DOMAIN arg.obj => ret.val.reasoning = ""
              /\ PresentFieldsUsed(arg.obj, ret.val)
        /\ ~Convertible(arg.obj) => ret.val = DefaultOf(articles[1])

\* C5 witness: the empty object answered for an article with a summary of
\* more than 100 characters and with tags: the summary is cut, the keywords
\* are empty, the reasoning is empty.
C5_Witness ==
    /\ pc = "analyze_article" /\ Truthy(api_key)
    /\ arg.kind = "object" /\ arg.obj = NoDict
    /\ articles[1]["summary"].len > 100
    /\ "tags" \in DOMAIN articles[1] /\ Len(articles[1]["tags"]) = 4
    /\ ret.val.summary.len = 100
    /\ ret.val.keywords = <<>>
    /\ ret.val.reasoning = ""

(***************************************************************************)
(* Claims about a run of main                                              *)
(***************************************************************************)
\* process_all has returned (and the run was not cut short)
Classified ==
    \/ pc \in {"sort_by_hot_score", "generate_report", "create_archive_entry",
               "save_raw_data"}
    \/ pc = "done" /\ exit_status = "zero"

\* the articles of the list with the (title, link) pair k
WithKey(k) == {a \in Range(articles) : <<a["title"], a["link"]>> = k}

\* C2: after process_all every article's hot_score is an integer in
\* [0,100], whatever hot_score the service returned and whether or not the
\* call succeeded; where the returned value could not be parsed (a string
\* that spells no integer, null), the stored value is 50.
C2_HotScoreInRange ==
    Classified =>
        /\ \A i \in DOMAIN articles :
              /\ "hot_score" \in DOMAIN articles[i]
              /\ articles[i]["hot_score"] \in 0..100
        /\ \A e \in Range(ai_log) :
              e.hot_score.t \in {"floatstr", "text", "null"}
                  => \A a \in WithKey(e.key) : a["hot_score"] = 50

\* C2 witness: a finished classification of two articles, one answered with
\* hot_score 150 and stored as 100, one answered with a hot_score that
\* spells no number and stored as 50.
C2_Witness ==
    /\ Classified
    /\ \E e \in Range(ai_log) :
          /\ e.hot_score = [t |-> "int", n |-> 150]
          /\ \E a \in WithKey(e.key) : a["hot_score"] = 100
    /\ \E e \in Range(ai_log) :
          /\ e.hot_score.t = "text"
          /\ \E a \in WithKey(e.key) : a["hot_score"] = 50

\* C3: without credential (DEEPSEEK_API_KEY unset or empty, hence no
\* api_key argument either) no request is issued to the remote service, and
\* process_all gives every article category = fallback category,
\* hot_score = 50 and reasoning = the unavailable marker.
C3_NoKeyNoRequest ==
    env_key \in {PyNone, ""} =>
        /\ ai_log = <<>>
        /\ Classified =>
              \A i \in DOMAIN articles :
                  /\ articles[i]["category"] = "industry_news"
                  /\ articles[i]["hot_score"] = 50
                  /\ articles[i]["reasoning"] = "ai_unavailable"

\* C3 witness: a finished run with an empty DEEPSEEK_API_KEY and two articles.
C3_Witness ==
    /\ env_key = ""
    /\ pc = "done" /\ exit_status = "zero"
    /\ Len(articles) = 2
    /\ articles[2]["reasoning"] = "ai_unavailable"

\* C6: failure isolation.  A failed fetch of a source yields no article for
\* that source; no failure of a fetch request or of a classification call
\* reaches main's handler; whatever failed, once fetch_all has returned
\* every source of the registry has been fetched, and once process_all has
\* returned every article has been classified; while fetch_all or
\* process_all is under way its next step can always be taken.  (A registry
\* entry without 'url' or 'name' raises KeyError before any request: that
\* is a defect of the configuration, not a failed fetch.)
C6_FailureIsolation ==
    /\ raised.stage = "fetch_all" => raised.exc = "KeyError"
    /\ raised.stage # "process_all"
    /\ \A e \in Range(fetch_log) : e.failed => e.count = 0
    /\ (pc \notin {"load_sources", "fetch_all"}
           /\ raised.stage \notin {"load_sources", "fetch_all"})
          => {e.source : e \in Range(fetch_log)} = DOMAIN sources
    /\ (Classified /\ api_key \notin {"", PyNone}) =>
          {e.key : e \in Range(ai_log)}
              = {<<a["title"], a["link"]>> : a \in Range(articles)}
    /\ pc = "fetch_all" => ENABLED (FetchFeed \/ MainNoArticles \/ MainDeduplicate)
    /\ pc = "process_all" =>
          ENABLED (ProcessAllNoKey \/ ProcessArticle \/ ProcessAllReturn)

\* C6 witness: a finished run whose first fetch failed and whose second
\* delivered an article, and whose first classification failed and whose
\* second succeeded.
C6_Witness ==
    /\ pc = "done" /\ exit_status = "zero"
    /\ Len(fetch_log) = 3
    /\ fetch_log[1].failed /\ ~fetch_log[2].failed /\ fetch_log[2].count > 0
    /\ Len(ai_log) = 2
    /\ ai_log[1].failed /\ ~ai_log[2].failed

\* C7: no request is reissued: each source of the registry gets at most one
\* fetch request and each article at most one classification request, also
\* after a failure; a failed fetch stands as the empty list and a failed
\* classification as the default analysis.
C7_NoRetry ==
    /\ \A i, j \in DOMAIN fetch_log : i # j => fetch_log[i].source # fetch_log[j].source
    /\ \A i, j \in DOMAIN ai_log : i # j => ai_log[i].key # ai_log[j].key
    /\ \A e \in Range(fetch_log) : e.failed => e.count = 0
    /\ \A e \in Range(ai_log) :
          e.failed => \A a \in WithKey(e.key) :
                          /\ a["category"] = "industry_news"
                          /\ a["hot_score"] = 50
                          /\ a["summary"] = TakeText(a["content"], 300)
                          /\ a["keywords"] = Take(a["tags"], 3)
                          /\ a["reasoning"] = "ai_unavailable"

\* C7 witness: a finished run in which the last source and the last article
\* failed, after three fetch requests and two classification requests.
C7_Witness ==
    /\ pc = "done" /\ exit_status = "zero"
    /\ Len(fetch_log) = 3 /\ fetch_log[3].failed
    /\ Len(ai_log) = 2 /\ ai_log[2].failed

(***************************************************************************)
(* Claims about the batches of process_all                                 *)
(***************************************************************************)
\* C16: with a credential, process_all returns a list of the length of its
\* input that holds the same articles in the same order (whatever the
\* analysis does not write is as it was), each of them analysed, and has
\* issued exactly one request per article, in the order of the list:
\* nothing is dropped, doubled or moved at a batch boundary.
C16_BatchesKeepList ==
    (pc = "sort_by_hot_score" /\ HasKey(api_key)) =>
        /\ Len(articles) = Len(arg.articles)
        /\ \A i \in DOMAIN articles :
              /\ \A k \in DOMAIN arg.articles[i] \ AnalysisFields :
                    articles[i][k] = arg.articles[i][k]
              /\ AnalysisFields \subseteq DOMAIN articles[i]
        /\ Len(ai_log) = Len(arg.articles)
        /\ \A i \in DOMAIN ai_log :
              ai_log[i].key = <<arg.articles[i]["title"], arg.articles[i]["link"]>>

\* C16 witness: a list of seven articles, one full batch and a batch of two,
\* returned after the fifth and the sixth call failed.
C16_Witness ==
    /\ pc = "sort_by_hot_score" /\ HasKey(api_key)
    /\ Len(arg.articles) = 7
    /\ Len(articles) = 7
    /\ ai_log[5].failed /\ ai_log[6].failed /\ ~ai_log[7].failed
    /\ articles[7]["hot_score"] = 85

\* C16 witness of the empty list: process_all returns the empty list
\* without any request.
C16_EmptyList ==
    /\ pc = "sort_by_hot_score" /\ HasKey(api_key)
    /\ arg.articles = <<>> /\ articles = <<>> /\ ai_log = <<>>

(***************************************************************************)
(* Claims about the registry, the exit status and the empty fetch          *)
(***************************************************************************)
\* the document lists sources the way the registry is documented: an object
\* whose 'sources' is a list of entries that have a name and a url
ExpectedShape(doc) ==
    /\ doc.t = "object"
    /\ "sources" \in DOMAIN doc.obj
    /\ doc.obj["sources"].t = "list"
    /\ \A e \in Range(doc.obj["sources"].items) : {"name", "url"} \subseteq DOMAIN e

\* the configuration is absent or unreadable
Unusable(cfg) ==
    \/ cfg.kind \in {"missing", "not_openable", "not_json"}
    \/ cfg.kind = "json" /\ ~ExpectedShape(cfg.doc)

\* C12 as claimed: when the configuration is absent or unreadable (file
\* missing, not openable, not valid JSON, not of the expected shape), the
\* fetcher is constructed with the three default sources and no error
\* escapes the load.
C12_ConfigFallback ==
    (pc # "load_sources" /\ Unusable(config)) =>
        /\ raised.stage # "load_sources"
        /\ [i \in DOMAIN sources |-> sources[i].name] = <<"36kr", "huxiu", "sspai">>

\* C12, the two cases the code handles: a missing file and a file that is
\* not valid JSON give the three default sources, and the run goes on.
C12_HandledCases ==
    (pc # "load_sources" /\ config.kind \in {"missing", "not_json"}) =>
        /\ raised.stage # "load_sources"
        /\ Len(sources) = 3

\* C12, a failing case reached: the file cannot be opened, the error has
\* escaped the load and ended the run.
C12_Escaped ==
    /\ config.kind = "not_openable"
    /\ pc = "done"
    /\ raised = [stage |-> "load_sources", exc |-> "PermissionError"]
    /\ sources = <<>>

\* C15: a failure that reaches the top level of main, in whatever stage,
\* ends the process with a non-zero status, and a run that ends with status
\* zero has raised none; in particular a configuration that cannot be
\* opened and a registry entry without url end the run with a non-zero
\* status.
C15_FailureExitsNonZero ==
    /\ raised.stage # "none" => (pc = "done" /\ exit_status = "nonzero")
    /\ exit_status = "zero" => raised.stage = "none"
    /\ (pc # "load_sources" /\ config.kind = "not_openable") => exit_status = "nonzero"
    /\ (pc = "done" /\ \E i \in DOMAIN sources : "url" \notin DOMAIN sources[i])
          => exit_status = "nonzero"

\* C15 witness: the report and the archive are written, then the dump of
\* the raw data fails and the run ends with a non-zero status.
C15_Witness ==
    /\ pc = "done"
    /\ exit_status = "nonzero"
    /\ raised = [stage |-> "save_raw_data", exc |-> "OSError"]
    /\ "docs/index.html" \in DOMAIN files
    /\ Cardinality(DOMAIN files) = 2

\* fetch_all has returned and no source has delivered an article
FetchedNothing ==
    /\ pc \notin {"load_sources", "fetch_all"}
    /\ raised.stage \notin {"load_sources", "fetch_all"}
    /\ \A e \in Range(fetch_log) : e.count = 0

\* C17: when fetch_all returns no article (every source failed or was
\* empty), main stops after the fetch stage: no classifier is built and no
\* classification request is made, no file is written, and the process ends
\* with status zero.
C17_NoArticlesStops ==
    FetchedNothing =>
        /\ pc = "done"
        /\ exit_status = "zero"
        /\ raised.stage = "none"
        /\ ai_log = <<>>
        /\ api_key = PyNone
        /\ files = NoDict

\* C17 witness: with a credential in the environment, the first source
\* failed, the second delivered an empty feed, the third failed; the run
\* has ended.
C17_Witness ==
    /\ env_key = "sk-1"
    /\ pc = "done"
    /\ Len(fetch_log) = 3
    /\ fetch_log[1].failed /\ ~fetch_log[2].failed /\ fetch_log[3].failed
    /\ fetch_log[2].count = 0
    /\ exit_status = "zero"

(***************************************************************************)
(* Claim about the end-to-end example                                      *)
(***************************************************************************)
\* the list holds three articles, two of one (title, link) pair and one of
\* another
TwoAlikeOneDistinct(as) ==
    /\ Len(as) = 3
    /\ Cardinality({<<as[i]["title"], as[i]["link"]>> : i \in DOMAIN as}) = 2

\* the first article of the list whose pair is not that of the first one
FirstOther(as) ==
    as[CHOOSE i \in DOMAIN as :
           /\ ~SameKey(as[i], as[1])
           /\ \A j \in DOMAIN as : ~SameKey(as[j], as[1]) => i <= j]

RECURSIVE CountSumTo(_)
CountSumTo(n) == IF n = 0 THEN 0 ELSE fetch_log[n].count + CountSumTo(n - 1)

\* the run of the example, after deduplication: three sources were fetched
\* and delivered three articles in all, two of which are left; no credential
ExampleRun ==
    /\ pc \notin {"load_sources", "fetch_all"}
    /\ Len(sources) = 3
    /\ Len(fetch_log) = 3
    /\ CountSumTo(3) = 3
    /\ Len(articles) = 2
    /\ env_key \in {PyNone, ""}

\* the position in the registry of the source named name
SourceIdx(name) == CHOOSE i \in DOMAIN sources : sources[i].name = name

\* the buckets of the report file that hold an article
NonEmptyBuckets(report) ==
    {k \in DOMAIN report.categories.val : report.categories.val[k] # <<>>}

\* C14, the deduplication of the example: when three sources have delivered
\* two articles of the same (title, link) and one distinct article,
\* deduplicate leaves two articles, the first occurrences in their order.
C14_DedupStep ==
    (pc = "fetch_all" /\ pc' = "process_all" /\ Len(fetch_log) = 3
        /\ TwoAlikeOneDistinct(articles))
        => articles' = <<articles[1], FirstOther(articles)>>

\* C14, the rest of the example: without credential the two articles get
\* hot_score 50 and the fallback category, no request is made, and the
\* report written has exactly one non-empty bucket, which holds the two
\* articles in their first-seen order.
C14_ExampleReport ==
    /\ (ExampleRun /\ Classified) =>
          /\ ai_log = <<>>
          /\ \A i \in DOMAIN articles :
                /\ articles[i]["hot_score"] = 50
                /\ articles[i]["category"] = "industry_news"
          /\ SourceIdx(articles[1]["source"]) <= SourceIdx(articles[2]["source"])
          /\ ~SameKey(articles[1], articles[2])
    /\ (ExampleRun /\ "docs/index.html" \in DOMAIN files) =>
          LET report == files["docs/index.html"][1].report
          IN  /\ NonEmptyBuckets(report) = {"industry_news"}
              /\ report.categories.val["industry_news"] = articles
              /\ report.total_articles = 2
              /\ report.total_categories = 1

\* C14: the end-to-end example.
C14_EndToEnd == [][C14_DedupStep]_vars /\ []C14_ExampleReport

\* C14 witness: the first and the third source delivered the same article,
\* the second another one; the run has ended and the report holds the two
\* articles in one bucket.
C14_Witness ==
    /\ ExampleRun
    /\ pc = "done" /\ exit_status = "zero"
    /\ articles[1]["source"] = "36kr" /\ articles[2]["source"] = "huxiu"
    /\ \A e \in Range(fetch_log) : e.count = 1
    /\ Len(files["docs/index.html"][1].report.categories.val["industry_news"]) = 2

(***************************************************************************)
(* Claim about running the report step again                               *)
(***************************************************************************)
LatestPath == "docs/index.html"

ArchivePaths ==
    {"docs/archive/report_2026-01-01.html", "docs/archive/report_2026-01-02.html",
     "docs/archive/report_2026-01-03.html"}

\* a document without its timestamp
Untimed(doc) == [report_date |-> doc.report_date, report |-> doc.report]

\* C13: once the report step is over, the latest file and a dated archive
\* file are written; a file holds one document and never two (a write
\* replaces, it does not append); and after the step has run again with the
\* same article list, every file whose document is of the same date as
\* after the first run holds the same document, apart from the timestamp.
C13_ReportIdempotent ==
    /\ pc = "save_raw_data" =>
          /\ LatestPath \in DOMAIN files
          /\ DOMAIN files \cap ArchivePaths # {}
          /\ DOMAIN files \subseteq {LatestPath} \cup ArchivePaths
    /\ \A p \in DOMAIN files : Len(files[p]) = 1
    /\ (pc = "save_raw_data" /\ prev_files # NoDict) =>
          \A p \in DOMAIN prev_files :
              /\ p \in DOMAIN files
              /\ files[p][1].report_date = prev_files[p][1].report_date
                    => Untimed(files[p][1]) = Untimed(prev_files[p][1])

\* C13 witness: the step has run twice on the same day, at different times,
\* for a list of two articles: the two files are those of the first run and
\* differ from them in the timestamp only.
C13_Witness ==
    /\ pc = "save_raw_data"
    /\ prev_files # NoDict
    /\ Len(articles) = 2
    /\ DOMAIN files = DOMAIN prev_files
    /\ Cardinality(DOMAIN files) = 2
    /\ \A p \in DOMAIN files :
          /\ files[p][1].report_date = prev_files[p][1].report_date
          /\ files[p][1].generation_time # prev_files[p][1].generation_time

====
